---- MODULE Spec2Model ----
(***************************************************************************)
(* Model of src/ecs-deployment/index.ts: the EcsDeployment construct of    *)
(* cdk-ecs-codedeploy.  EcsDeployment.forDeploymentGroup(props) creates a  *)
(* construct named 'Deployment' under the deployment group, a deployment   *)
(* provider under it, derives the auto-rollback events from three optional *)
(* booleans and registers one custom resource carrying the property bag.   *)
(*                                                                         *)
(* JavaScript values that may be undefined are modelled as sequences of    *)
(* length at most one: <<>> is undefined, <<v>> is the value v.            *)
(***************************************************************************)
EXTENDS Integers, Sequences, FiniteSets, TLC

VARIABLES
    children,      \* construct tree: path of a construct -> ids of its children
    deployments,   \* EcsDeployment objects by construct path (their deploymentId)
    providers,     \* EcsDeploymentProvider objects by construct path
    resources,     \* cdk.CustomResource objects by construct path
    requested,     \* history: the props of the call that built each EcsDeployment
    applied,       \* custom resources the host framework's apply phase has run for
    lastCall       \* history: target and outcome of the latest forDeploymentGroup

vars == <<children, deployments, providers, resources, requested, applied, lastCall>>

----------------------------------------------------------------------------
(* Bounds of the input space *)

\* Supplied timeouts are Duration.minutes(0) .. Duration.minutes(MaxTimeoutMinutes).
MaxTimeoutMinutes == 1

----------------------------------------------------------------------------
(* JavaScript values *)

Undefined == <<>>

Some(v) == <<v>>

\* Faulty variant: a flag counts unless it is explicitly false (flag !== false).
TruthyFlagUnlessFalse(o) == o = Undefined \/ o[1] = TRUE

\* Truthiness of an optional boolean (a flag of AutoRollbackConfig).
TruthyFlag(o) == o # Undefined /\ o[1] = TRUE

\* Truthiness of an optional object: every object is truthy, undefined is not.
TruthyObject(o) == o # Undefined

\* props.autoRollback?.field
OptionalChain(o, field) == IF o = Undefined THEN Undefined ELSE o[1][field]

\* Boolean.prototype.toString
BoolToString(b) == IF b THEN "true" ELSE "false"

\* Array.prototype.join(sep) on an array of strings
RECURSIVE Join(_, _)
Join(arr, sep) ==
    IF Len(arr) = 0 THEN ""
    ELSE IF Len(arr) = 1 THEN arr[1]
    ELSE arr[1] \o sep \o Join(Tail(arr), sep)

\* cdk.Duration.minutes(n)
DurationMinutes(n) == [amount |-> n, unit |-> "minutes"]

----------------------------------------------------------------------------
(* The collaborators' objects the props refer to *)

\* Deployment groups (IEcsDeploymentGroup), each a construct of the tree.
DeploymentGroups ==
    { [id |-> "grp1construct",
       application |-> [applicationName |-> "app1"],
       deploymentConfig |-> [deploymentConfigName |-> "cfg1"],
       deploymentGroupName |-> "grp1"],
      [id |-> "grp2construct",
       application |-> [applicationName |-> "app2"],
       deploymentConfig |-> [deploymentConfigName |-> "cfg2"],
       deploymentGroupName |-> "grp2"] }

\* The deployment group of the example of the specification: app1, cfg1, grp1.
Group1 == CHOOSE g \in DeploymentGroups : g.deploymentGroupName = "grp1"

\* The construct path of a deployment group.
GroupPath(g) == <<g.id>>

GroupPaths == { GroupPath(g) : g \in DeploymentGroups }

\* EcsAppSpec objects; toString() yields the serialized content.
AppSpecs == { [serialized |-> "spec-content"], [serialized |-> "other-spec"] }

AppSpecToString(a) == a.serialized

OptionalBooleans == { Undefined, Some(TRUE), Some(FALSE) }

\* codedeploy.AutoRollbackConfig: three optional booleans.
AutoRollbackConfigs ==
    [deploymentInAlarm : OptionalBooleans,
     failedDeployment : OptionalBooleans,
     stoppedDeployment : OptionalBooleans]

Descriptions == { Undefined, Some("a description") }

Timeouts == { Undefined } \cup { Some(DurationMinutes(n)) : n \in 0..MaxTimeoutMinutes }

\* EcsDeploymentProps
EcsDeploymentProps ==
    [deploymentGroup : DeploymentGroups,
     appspec : AppSpecs,
     autoRollback : { Undefined } \cup { Some(c) : c \in AutoRollbackConfigs },
     description : Descriptions,
     timeout : Timeouts]

----------------------------------------------------------------------------
(* The construct tree (Construct's constructor, reached through super) *)

\* Whether scope already has a child named id: the constructor then throws.
NameTaken(scope, id) == id \in children[scope]

\* The tree with a new construct id added under scope.
AddChild(tree, scope, id) ==
    [p \in DOMAIN tree \cup {Append(scope, id)} |->
        IF p = scope THEN tree[p] \cup {id}
        ELSE IF p \in DOMAIN tree THEN tree[p]
        ELSE {}]

----------------------------------------------------------------------------
(* EcsDeployment *)

\* cdk.Duration.minutes(30), the default timeout
DefaultTimeoutMinutes == 30

\* Faulty variant: every EcsDeployment is created under one shared scope.
DeploymentScopeShared(props) == GroupPath(Group1)

\* forDeploymentGroup: the scope is always the deployment group ...
DeploymentScope(props) == GroupPath(props.deploymentGroup)

\* Faulty variant: the id is made unique instead of fixed.
FreshChildId == IF DOMAIN deployments = {} THEN "Deployment" ELSE "Deployment2"

\* ... and the id is always the string 'Deployment'.
DeploymentChildId == "Deployment"

\* Faulty variant: a timeout of zero counts as absent (as a number would under ||).
ForwardedTimeoutZeroIsAbsent(props) ==
    IF TruthyObject(props.timeout) /\ props.timeout[1].amount # 0 THEN props.timeout[1]
    ELSE DurationMinutes(DefaultTimeoutMinutes)

\* props.timeout || cdk.Duration.minutes(30)
ForwardedTimeout(props) ==
    IF TruthyObject(props.timeout) THEN props.timeout[1]
    ELSE DurationMinutes(DefaultTimeoutMinutes)

\* new EcsDeploymentProvider(this, 'DeploymentProvider', {deploymentGroup, timeout}):
\* keeps what it is given and exposes a service token of its own.
EcsDeploymentProvider(path, providerProps) ==
    [deploymentGroup |-> providerProps.deploymentGroup,
     timeout |-> providerProps.timeout,
     serviceToken |-> [serviceTokenOf |-> path]]

\* Faulty variant: the failure token is pushed before the alarm token.
AutoRollbackConfigurationEventsReordered(props) ==
    LET e0 == <<>>
        e1 == IF TruthyFlag(OptionalChain(props.autoRollback, "failedDeployment"))
              THEN Append(e0, "DEPLOYMENT_FAILURE") ELSE e0
        e2 == IF TruthyFlag(OptionalChain(props.autoRollback, "deploymentInAlarm"))
              THEN Append(e1, "DEPLOYMENT_STOP_ON_ALARM") ELSE e1
        e3 == IF TruthyFlag(OptionalChain(props.autoRollback, "stoppedDeployment"))
              THEN Append(e2, "DEPLOYMENT_STOP_ON_REQUEST") ELSE e2
    IN e3

\* The three pushes, in the order of the code.
AutoRollbackConfigurationEvents(props) ==
    LET e0 == <<>>
        e1 == IF TruthyFlag(OptionalChain(props.autoRollback, "deploymentInAlarm"))
              THEN Append(e0, "DEPLOYMENT_STOP_ON_ALARM") ELSE e0
        e2 == IF TruthyFlag(OptionalChain(props.autoRollback, "failedDeployment"))
              THEN Append(e1, "DEPLOYMENT_FAILURE") ELSE e1
        e3 == IF TruthyFlag(OptionalChain(props.autoRollback, "stoppedDeployment"))
              THEN Append(e2, "DEPLOYMENT_STOP_ON_REQUEST") ELSE e2
    IN e3

\* Faulty variant: enabled only with more than one event (length > 1).
AutoRollbackConfigurationEnabledMoreThanOne(events) == BoolToString(Len(events) > 1)

\* (autoRollbackConfigurationEvents.length > 0).toString()
AutoRollbackConfigurationEnabled(events) == BoolToString(Len(events) > 0)

\* Faulty variant: the description key is left out when there is no description.
PropertiesWithoutUndefined(props, events) ==
    IF props.description = Undefined
    THEN [applicationName |-> props.deploymentGroup.application.applicationName,
          deploymentConfigName |->
              props.deploymentGroup.deploymentConfig.deploymentConfigName,
          deploymentGroupName |-> props.deploymentGroup.deploymentGroupName,
          autoRollbackConfigurationEnabled |-> AutoRollbackConfigurationEnabled(events),
          autoRollbackConfigurationEvents |-> Join(events, ","),
          revisionAppSpecContent |-> AppSpecToString(props.appspec)]
    ELSE [applicationName |-> props.deploymentGroup.application.applicationName,
          deploymentConfigName |->
              props.deploymentGroup.deploymentConfig.deploymentConfigName,
          deploymentGroupName |-> props.deploymentGroup.deploymentGroupName,
          autoRollbackConfigurationEnabled |-> AutoRollbackConfigurationEnabled(events),
          autoRollbackConfigurationEvents |-> Join(events, ","),
          description |-> props.description,
          revisionAppSpecContent |-> AppSpecToString(props.appspec)]

\* Faulty variant: deploymentConfigName is given the deployment group's name.
PropertiesNamesMixedUp(props, events) ==
    [applicationName |-> props.deploymentGroup.application.applicationName,
     deploymentConfigName |-> props.deploymentGroup.deploymentGroupName,
     deploymentGroupName |-> props.deploymentGroup.deploymentGroupName,
     autoRollbackConfigurationEnabled |-> AutoRollbackConfigurationEnabled(events),
     autoRollbackConfigurationEvents |-> Join(events, ","),
     description |-> props.description,
     revisionAppSpecContent |-> AppSpecToString(props.appspec)]

\* The properties of the custom resource.
Properties(props, events) ==
    [applicationName |-> props.deploymentGroup.application.applicationName,
     deploymentConfigName |-> props.deploymentGroup.deploymentConfig.deploymentConfigName,
     deploymentGroupName |-> props.deploymentGroup.deploymentGroupName,
     autoRollbackConfigurationEnabled |-> AutoRollbackConfigurationEnabled(events),
     autoRollbackConfigurationEvents |-> Join(events, ","),
     description |-> props.description,
     revisionAppSpecContent |-> AppSpecToString(props.appspec)]

\* Faulty variant: the service token is that of the provider of one fixed deployment group.
CustomResourceOtherToken(provider, props, events) ==
    [serviceToken |->
        [serviceTokenOf |-> <<Group1.id, "Deployment", "DeploymentProvider">>],
     resourceType |-> "Custom::EcsDeployment",
     properties |-> Properties(props, events)]

\* new cdk.CustomResource(this, 'DeploymentResource', {...})
CustomResource(provider, props, events) ==
    [serviceToken |-> provider.serviceToken,
     resourceType |-> "Custom::EcsDeployment",
     properties |-> Properties(props, events)]

\* Faulty variant: the handle names another attribute of the resource.
DeploymentIdOfPhysicalId(resourcePath) == [resource |-> resourcePath, attribute |-> "Ref"]

\* deployment.getAttString('deploymentId'): a reference to an attribute of the
\* custom resource, not a value.
DeploymentIdOf(resourcePath) == [resource |-> resourcePath, attribute |-> "deploymentId"]

\* A function extended or overwritten at one point.
Put(f, k, v) == [x \in DOMAIN f \cup {k} |-> IF x = k THEN v ELSE f[x]]

\* EcsDeployment.forDeploymentGroup(props): the whole constructor.
forDeploymentGroup(props) ==
    LET scope == DeploymentScope(props)
        id == DeploymentChildId
        this == Append(scope, id)
        providerPath == Append(this, "DeploymentProvider")
        resourcePath == Append(this, "DeploymentResource")
        ecsDeploymentProvider ==
            EcsDeploymentProvider(providerPath,
                [deploymentGroup |-> props.deploymentGroup,
                 timeout |-> ForwardedTimeout(props)])
        events == AutoRollbackConfigurationEvents(props)
        deployment == CustomResource(ecsDeploymentProvider, props, events)
    IN  IF NameTaken(scope, id)
        THEN \* super(scope, id) throws: nothing else of the constructor runs
             /\ lastCall' = [group |-> props.deploymentGroup.id, result |-> "collision"]
             /\ UNCHANGED <<children, deployments, providers, resources, requested, applied>>
        ELSE /\ children' = AddChild(AddChild(AddChild(children, scope, id),
                                              this, "DeploymentProvider"),
                                     this, "DeploymentResource")
             /\ providers' = Put(providers, providerPath, ecsDeploymentProvider)
             /\ resources' = Put(resources, resourcePath, deployment)
             /\ deployments' = Put(deployments, this,
                                   [deploymentId |-> DeploymentIdOf(resourcePath)])
             /\ requested' = Put(requested, this, props)
             /\ lastCall' = [group |-> props.deploymentGroup.id, result |-> "ok"]
             /\ UNCHANGED applied

\* The host framework's apply phase runs for one registered custom resource.
Apply(resourcePath) ==
    /\ resourcePath \in DOMAIN resources
    /\ resourcePath \notin applied
    /\ applied' = applied \cup {resourcePath}
    /\ UNCHANGED <<children, deployments, providers, resources, requested, lastCall>>

\* What a deferred attribute reference resolves to: undefined before the apply
\* phase has run for its resource.
Resolve(ref) ==
    IF ref.resource \in applied THEN Some("d-" \o ref.resource[1]) ELSE Undefined

Init ==
    /\ children = [p \in GroupPaths |-> {}]
    /\ deployments = <<>>
    /\ providers = <<>>
    /\ resources = <<>>
    /\ requested = <<>>
    /\ applied = {}
    /\ lastCall = [group |-> "", result |-> "none"]

\* Rollback configurations of the calls made over several deployment groups:
\* none, one flag, every flag.
FewAutoRollbacks ==
    { Undefined,
      Some([deploymentInAlarm |-> Some(TRUE), failedDeployment |-> Undefined,
            stoppedDeployment |-> Some(FALSE)]),
      Some([deploymentInAlarm |-> Some(TRUE), failedDeployment |-> Some(TRUE),
            stoppedDeployment |-> Some(TRUE)]) }

\* Calls over every deployment group, with few rollback configurations.
GroupInputs == { props \in EcsDeploymentProps : props.autoRollback \in FewAutoRollbacks }

\* Calls with every rollback configuration, for one deployment group.
PropsInputs == { props \in EcsDeploymentProps : props.deploymentGroup = Group1 }

\* The calls of a set that can be told apart.  A call whose construct name is
\* taken throws in super(scope, id), having read nothing of props but
\* deploymentGroup: one props per deployment group stands for all of them there.
Calls(inputs) ==
    { props \in inputs :
        NameTaken(DeploymentScope(props), DeploymentChildId) =>
            /\ props.appspec = CHOOSE a \in AppSpecs : TRUE
            /\ props.autoRollback = Undefined
            /\ props.description = Undefined
            /\ props.timeout = Undefined }

Next ==
    \/ \E props \in Calls(GroupInputs) : forDeploymentGroup(props)
    \/ \E r \in DOMAIN resources : Apply(r)

Spec == Init /\ [][Next]_vars

NextProps ==
    \/ \E props \in Calls(PropsInputs) : forDeploymentGroup(props)
    \/ \E r \in DOMAIN resources : Apply(r)

SpecProps == Init /\ [][NextProps]_vars

----------------------------------------------------------------------------
(* What the properties below read *)

ResourceOf(d) == Append(d, "DeploymentResource")

ProviderOf(d) == Append(d, "DeploymentProvider")

\* The property bag registered for the EcsDeployment at path d.
Bag(d) == resources[ResourceOf(d)].properties

\* The constructs of a collection that lie under the deployment group named id.
Under(paths, id) == { p \in paths : p[1] = id }

HasDeployment(id) == Under(DOMAIN deployments, id) # {}

\* A flag of the props that is explicitly the boolean b.
FlagIs(props, f, b) ==
    props.autoRollback # Undefined /\ props.autoRollback[1][f] = Some(b)

Flags == {"deploymentInAlarm", "failedDeployment", "stoppedDeployment"}

\* The three flags are all supplied, as booleans.
AllBooleans(props) ==
    /\ props.autoRollback # Undefined
    /\ \A f \in Flags : props.autoRollback[1][f] # Undefined

\* The wire string read back as the provider reads it: split at the commas.
RECURSIVE SplitAt(_, _, _)
SplitAt(str, i, cur) ==
    IF i > Len(str) THEN <<cur>>
    ELSE IF SubSeq(str, i, i) = "," THEN <<cur>> \o SplitAt(str, i + 1, "")
    ELSE SplitAt(str, i + 1, cur \o SubSeq(str, i, i))

Tokens(str) == IF str = "" THEN <<>> ELSE SplitAt(str, 1, "")

TokenOf(f) ==
    CASE f = "deploymentInAlarm" -> "DEPLOYMENT_STOP_ON_ALARM"
      [] f = "failedDeployment" -> "DEPLOYMENT_FAILURE"
      [] f = "stoppedDeployment" -> "DEPLOYMENT_STOP_ON_REQUEST"

\* The mapping of the specification, one line per combination of the booleans.
ExpectedEvents(alarm, failure, stopped) ==
    CASE ~alarm /\ ~failure /\ ~stopped -> ""
      [] alarm /\ ~failure /\ ~stopped -> "DEPLOYMENT_STOP_ON_ALARM"
      [] ~alarm /\ failure /\ ~stopped -> "DEPLOYMENT_FAILURE"
      [] ~alarm /\ ~failure /\ stopped -> "DEPLOYMENT_STOP_ON_REQUEST"
      [] alarm /\ failure /\ ~stopped -> "DEPLOYMENT_STOP_ON_ALARM,DEPLOYMENT_FAILURE"
      [] alarm /\ ~failure /\ stopped ->
            "DEPLOYMENT_STOP_ON_ALARM,DEPLOYMENT_STOP_ON_REQUEST"
      [] ~alarm /\ failure /\ stopped -> "DEPLOYMENT_FAILURE,DEPLOYMENT_STOP_ON_REQUEST"
      [] alarm /\ failure /\ stopped ->
            "DEPLOYMENT_STOP_ON_ALARM,DEPLOYMENT_FAILURE,DEPLOYMENT_STOP_ON_REQUEST"

----------------------------------------------------------------------------
(* C1 *)

\* C1: for each of the 8 combinations of the three rollback booleans, the
\* autoRollbackConfigurationEvents of the registered bag is the comma-join of the
\* tokens of the true flags, in the order alarm, failure, stopped, with no
\* leading or trailing comma.
C1_EventsOfBooleans ==
    \A d \in DOMAIN requested :
        AllBooleans(requested[d]) =>
            Bag(d).autoRollbackConfigurationEvents =
                ExpectedEvents(FlagIs(requested[d], "deploymentInAlarm", TRUE),
                               FlagIs(requested[d], "failedDeployment", TRUE),
                               FlagIs(requested[d], "stoppedDeployment", TRUE))

\* alarm=true, failure=false, stopped=true has been registered.
C1_Witness ==
    \E d \in DOMAIN requested :
        /\ FlagIs(requested[d], "deploymentInAlarm", TRUE)
        /\ FlagIs(requested[d], "failedDeployment", FALSE)
        /\ FlagIs(requested[d], "stoppedDeployment", TRUE)
        /\ Bag(d).autoRollbackConfigurationEvents =
              "DEPLOYMENT_STOP_ON_ALARM,DEPLOYMENT_STOP_ON_REQUEST"

----------------------------------------------------------------------------
(* C2 *)

\* C2: autoRollbackConfigurationEnabled is "true" exactly when
\* autoRollbackConfigurationEvents is not the empty string, and "false"
\* otherwise; an absent autoRollback and one with no true flag give "" and "false".
C2_EnabledIffEvents ==
    \A d \in DOMAIN requested :
        /\ Bag(d).autoRollbackConfigurationEnabled \in {"true", "false"}
        /\ Bag(d).autoRollbackConfigurationEnabled = "true"
              <=> Bag(d).autoRollbackConfigurationEvents # ""
        /\ (\A f \in Flags : ~FlagIs(requested[d], f, TRUE)) =>
              /\ Bag(d).autoRollbackConfigurationEvents = ""
              /\ Bag(d).autoRollbackConfigurationEnabled = "false"

\* A bag with a single event has been registered, and is enabled.
C2_Witness ==
    \E d \in DOMAIN requested :
        /\ Bag(d).autoRollbackConfigurationEvents = "DEPLOYMENT_STOP_ON_REQUEST"
        /\ Bag(d).autoRollbackConfigurationEnabled = "true"

----------------------------------------------------------------------------
(* C3 *)

BagKeys ==
    {"applicationName", "deploymentConfigName", "deploymentGroupName",
     "autoRollbackConfigurationEnabled", "autoRollbackConfigurationEvents",
     "description", "revisionAppSpecContent"}

\* C3 as stated: every registered property bag has exactly six keys.
C3_SixKeys ==
    \A r \in DOMAIN resources : Cardinality(DOMAIN resources[r].properties) = 6

\* C3, amended: every registered property bag has exactly the seven keys that
\* step 4 of section 4.1 names, whatever autoRollback, description and timeout are.
C3_SevenKeys ==
    \A r \in DOMAIN resources : DOMAIN resources[r].properties = BagKeys

\* A bag has been registered with every optional input absent.
C3_Witness ==
    \E d \in DOMAIN requested :
        /\ requested[d].autoRollback = Undefined
        /\ requested[d].description = Undefined
        /\ requested[d].timeout = Undefined
        /\ ResourceOf(d) \in DOMAIN resources

----------------------------------------------------------------------------
(* C4 *)

\* C4: the three names of the bag are those of the deployment group of the call,
\* description is the description of the call (undefined when there is none) and
\* revisionAppSpecContent is the serialized AppSpec; for group (app1, cfg1, grp1),
\* AppSpec "spec-content", no rollback config and no description the bag is the
\* one the specification gives, whatever the timeout.
C4_PassThrough ==
    \A d \in DOMAIN requested :
        /\ Bag(d).applicationName = requested[d].deploymentGroup.application.applicationName
        /\ Bag(d).deploymentConfigName =
              requested[d].deploymentGroup.deploymentConfig.deploymentConfigName
        /\ Bag(d).deploymentGroupName = requested[d].deploymentGroup.deploymentGroupName
        /\ Bag(d).description = requested[d].description
        /\ Bag(d).revisionAppSpecContent = requested[d].appspec.serialized
        /\ ( /\ requested[d].deploymentGroup.deploymentGroupName = "grp1"
             /\ requested[d].appspec.serialized = "spec-content"
             /\ requested[d].autoRollback = Undefined
             /\ requested[d].description = Undefined )
           => Bag(d) = [applicationName |-> "app1",
                        deploymentConfigName |-> "cfg1",
                        deploymentGroupName |-> "grp1",
                        autoRollbackConfigurationEnabled |-> "false",
                        autoRollbackConfigurationEvents |-> "",
                        description |-> Undefined,
                        revisionAppSpecContent |-> "spec-content"]

\* The example of the specification has been registered, with a timeout supplied.
C4_Witness ==
    \E d \in DOMAIN requested :
        /\ requested[d].deploymentGroup.deploymentGroupName = "grp1"
        /\ requested[d].appspec.serialized = "spec-content"
        /\ requested[d].autoRollback = Undefined
        /\ requested[d].description = Undefined
        /\ requested[d].timeout # Undefined
        /\ Bag(d).revisionAppSpecContent = "spec-content"

----------------------------------------------------------------------------
(* C5 *)

\* A step of forDeploymentGroup (the apply phase leaves lastCall and changes applied).
IsCall == applied' = applied

\* C5: a forDeploymentGroup call for a deployment group that already has an
\* EcsDeployment fails with the name collision, and in that call no provider is
\* created and no custom resource is registered.
C5_SecondCallCollides ==
    [][ (IsCall /\ HasDeployment(lastCall'.group)) =>
            /\ lastCall'.result = "collision"
            /\ DOMAIN providers' = DOMAIN providers
            /\ DOMAIN resources' = DOMAIN resources
            /\ DOMAIN deployments' = DOMAIN deployments ]_vars

\* A second call for a deployment group has been made and has collided.
C5_Witness ==
    /\ lastCall.result = "collision"
    /\ HasDeployment(lastCall.group)

----------------------------------------------------------------------------
(* C6 *)

AtMostOnePerGroup ==
    \A g \in DeploymentGroups :
        /\ Cardinality(Under(DOMAIN deployments, g.id)) <= 1
        /\ Cardinality(Under(DOMAIN providers, g.id)) <= 1
        /\ Cardinality(Under(DOMAIN resources, g.id)) <= 1

\* Every construct registered before the step is there after it, unchanged.
Kept ==
    /\ \A d \in DOMAIN deployments :
          d \in DOMAIN deployments' /\ deployments'[d] = deployments[d]
    /\ \A q \in DOMAIN providers :
          q \in DOMAIN providers' /\ providers'[q] = providers[q]
    /\ \A r \in DOMAIN resources :
          r \in DOMAIN resources' /\ resources'[r] = resources[r]

\* C6: each deployment group has at most one EcsDeployment, one provider and one
\* custom resource under it; a rejected duplicate call changes no deployment,
\* provider or resource; a call for a group without a deployment succeeds
\* whatever the other groups have, and leaves theirs unchanged.
C6_OnePerGroup ==
    /\ []AtMostOnePerGroup
    /\ [][ IsCall =>
             IF HasDeployment(lastCall'.group)
             THEN /\ lastCall'.result = "collision"
                  /\ UNCHANGED <<children, deployments, providers, resources>>
             ELSE /\ lastCall'.result = "ok"
                  /\ Under(DOMAIN deployments', lastCall'.group) # {}
                  /\ Kept ]_vars

\* Both deployment groups have their deployment, and a duplicate call was rejected.
C6_Witness ==
    /\ \A g \in DeploymentGroups : HasDeployment(g.id)
    /\ lastCall.result = "collision"

----------------------------------------------------------------------------
(* C7 *)

\* C7: the provider is given 30 minutes when the props have no timeout and the
\* timeout of the props, unchanged, when they have one; the timeout is no key of
\* the property bag, and two calls that differ in timeout (and deployment group)
\* only register bags that differ in the three names only.
C7_TimeoutForwarded ==
    /\ \A d \in DOMAIN requested :
          /\ requested[d].timeout = Undefined =>
                providers[ProviderOf(d)].timeout = [amount |-> 30, unit |-> "minutes"]
          /\ requested[d].timeout # Undefined =>
                providers[ProviderOf(d)].timeout = requested[d].timeout[1]
          /\ "timeout" \notin DOMAIN Bag(d)
    /\ \A d, e \in DOMAIN requested :
          ( /\ requested[d].appspec = requested[e].appspec
            /\ requested[d].autoRollback = requested[e].autoRollback
            /\ requested[d].description = requested[e].description )
          => \A k \in {"autoRollbackConfigurationEnabled", "autoRollbackConfigurationEvents",
                       "description", "revisionAppSpecContent"} :
                 Bag(d)[k] = Bag(e)[k]

\* One call without a timeout and one with a timeout of zero minutes, otherwise
\* alike, have been made.
C7_Witness ==
    \E d, e \in DOMAIN requested :
        /\ requested[d].timeout = Undefined
        /\ requested[e].timeout = Some([amount |-> 0, unit |-> "minutes"])
        /\ requested[d].appspec = requested[e].appspec
        /\ requested[d].autoRollback = requested[e].autoRollback
        /\ requested[d].description = requested[e].description
        /\ providers[ProviderOf(d)].timeout.amount = 30

----------------------------------------------------------------------------
(* C8 *)

\* Each EcsDeployment has one custom resource, of type 'Custom::EcsDeployment',
\* whose service token is that of the provider under the same EcsDeployment,
\* which serves the same deployment group; no other provider has that token.
ResourceOfOwnProvider ==
    /\ \A d \in DOMAIN deployments :
          /\ ResourceOf(d) \in DOMAIN resources
          /\ ProviderOf(d) \in DOMAIN providers
          /\ resources[ResourceOf(d)].resourceType = "Custom::EcsDeployment"
          /\ resources[ResourceOf(d)].serviceToken = providers[ProviderOf(d)].serviceToken
          /\ providers[ProviderOf(d)].deploymentGroup = requested[d].deploymentGroup
          /\ providers[ProviderOf(d)].deploymentGroup.id = d[1]
          /\ \A q \in DOMAIN providers :
                providers[q].serviceToken = resources[ResourceOf(d)].serviceToken
                    => q = ProviderOf(d)
    /\ DOMAIN resources = { ResourceOf(d) : d \in DOMAIN deployments }

\* C8: each successful call registers exactly one custom resource, of type
\* 'Custom::EcsDeployment', whose service token is the one of the provider
\* created in the same call for the same deployment group.
C8_OneResourceOwnProvider ==
    /\ []ResourceOfOwnProvider
    /\ [][ (IsCall /\ lastCall'.result = "ok" /\ deployments' # deployments) =>
             /\ Cardinality(DOMAIN resources' \ DOMAIN resources) = 1
             /\ Cardinality(DOMAIN providers' \ DOMAIN providers) = 1
             /\ \A r \in DOMAIN resources' \ DOMAIN resources :
                   \E q \in DOMAIN providers' \ DOMAIN providers :
                       resources'[r].serviceToken = providers'[q].serviceToken ]_vars

\* Two deployment groups have their custom resources, with different service tokens.
C8_Witness ==
    \E r1, r2 \in DOMAIN resources :
        /\ r1[1] # r2[1]
        /\ resources[r1].serviceToken # resources[r2].serviceToken

----------------------------------------------------------------------------
(* C9 *)

\* The deploymentId of each EcsDeployment refers to the attribute 'deploymentId'
\* of the custom resource under it, and resolves exactly when the apply phase
\* has run for that resource.
DeferredHandle ==
    \A d \in DOMAIN deployments :
        /\ deployments[d].deploymentId.resource = ResourceOf(d)
        /\ deployments[d].deploymentId.attribute = "deploymentId"
        /\ ResourceOf(d) \in DOMAIN resources
        /\ Resolve(deployments[d].deploymentId) # Undefined <=> ResourceOf(d) \in applied

\* C9: deploymentId is a deferred handle to the 'deploymentId' attribute of the
\* custom resource of the same construction; it is unresolved when the
\* construction returns, resolves only by the apply phase for that resource,
\* and the EcsDeployment is never changed after its construction.
C9_DeferredDeploymentId ==
    /\ []DeferredHandle
    /\ [][ /\ \A d \in DOMAIN deployments :
                d \in DOMAIN deployments' /\ deployments'[d] = deployments[d]
           /\ \A d \in DOMAIN deployments' \ DOMAIN deployments :
                deployments'[d].deploymentId.resource \notin applied'
           /\ \A d \in DOMAIN deployments :
                (ResourceOf(d) \notin applied /\ ResourceOf(d) \in applied') =>
                    UNCHANGED <<children, deployments, providers, resources, lastCall>> ]_vars

\* An EcsDeployment whose deploymentId has been resolved by the apply phase.
C9_Witness ==
    \E d \in DOMAIN deployments : Resolve(deployments[d].deploymentId) # Undefined

----------------------------------------------------------------------------
(* C10 *)

\* C10: when autoRollback is supplied with some flag absent, the events string
\* has as many tokens as there are flags that are explicitly true, no token
\* twice, and the token of each flag exactly when that flag is explicitly true.
C10_AbsentFlagIsFalse ==
    \A d \in DOMAIN requested :
        (requested[d].autoRollback # Undefined /\ ~AllBooleans(requested[d])) =>
            LET tokens == Tokens(Bag(d).autoRollbackConfigurationEvents)
                on == { f \in Flags : FlagIs(requested[d], f, TRUE) }
            IN  /\ Len(tokens) = Cardinality(on)
                /\ \A i, j \in 1..Len(tokens) : tokens[i] = tokens[j] => i = j
                /\ \A f \in Flags :
                      (f \in on) <=> \E i \in 1..Len(tokens) : tokens[i] = TokenOf(f)

\* A call with failedDeployment true and the other two flags absent.
C10_Witness ==
    \E d \in DOMAIN requested :
        /\ requested[d].autoRollback # Undefined
        /\ requested[d].autoRollback[1].deploymentInAlarm = Undefined
        /\ requested[d].autoRollback[1].failedDeployment = Some(TRUE)
        /\ requested[d].autoRollback[1].stoppedDeployment = Undefined
        /\ Bag(d).autoRollbackConfigurationEvents = "DEPLOYMENT_FAILURE"

====
